---- MODULE Spec2Model ----
(***************************************************************************)
(* PocketChefBE: the recipe generation flows (validate -> prompt ->        *)
(* model backend -> post-process) and their pure helpers.                  *)
(*                                                                         *)
(* A JavaScript string is modelled as a sequence of one-character strings, *)
(* so that trimming, splitting, joining and replacing are computed the way *)
(* the code computes them.                                                 *)
(***************************************************************************)
EXTENDS Integers, Sequences, FiniteSets, TLC

VARIABLES
    pc,        \* per invocation: "idle", "awaiting" (suspended on the backend), "done"
    flow,      \* per invocation: which exported function was called
    req,       \* per invocation: the request object it was called with
    calls,     \* per invocation: number of calls issued to the model backend
    resp,      \* per invocation: what the model backend answered to its call
    result,    \* per invocation: what the caller received (value or fault)
    http,      \* per invocation: the response its express handler sent
    vIn,       \* ingredient string handed to isValidIngredientInput
    vOut,      \* its result: "none" before the call, then "true" / "false"
    raw,       \* raw instruction text produced by the backend
    val,       \* the instruction text after the transforms applied so far
    prev,      \* the text before the latest application
    applied    \* how many times the post-processor was applied to raw

vars == <<pc, flow, req, calls, resp, result, http, vIn, vOut, raw, val, prev, applied>>
flowVars == <<pc, flow, req, calls, resp, result, http>>
validVars == <<vIn, vOut>>
instrVars == <<raw, val, prev, applied>>

----------------------------------------------------------------------------
(* Bounds *)

MaxInstrLen == 6      \* longest raw instruction text
MaxApply == 2         \* how often the post-processor is applied to one text
MaxIngrLen == 5       \* longest ingredient string handed to the validator alone
NumInv == 2           \* number of flow invocations in flight
MaxReqIngrLen == 3    \* longest ingredients field of a request
MaxEventLen == 1      \* longest eventType of a request
MaxGuests == 1        \* largest numberOfGuests of a request
MaxNameLen == 3       \* longest recipeName of a named-recipe request
MaxRecipes == 1       \* longest recipes list of a filter request

----------------------------------------------------------------------------
(* Strings as sequences of characters *)

RECURSIVE Strs(_, _)
Strs(alphabet, n) ==
    IF n = 0 THEN {<< >>}
    ELSE LET shorter == Strs(alphabet, n - 1)
         IN  shorter \cup {Append(s, c) : s \in {t \in shorter : Len(t) = n - 1}, c \in alphabet}

\* s.substring(from, to) with 0-based from (inclusive) and to (exclusive)
Substring(s, from, to) == SubSeq(s, from + 1, to)

\* characters matched by \s that occur in the modelled alphabets
IsWhitespace(c) == c \in {" ", "\n"}

\* String.prototype.trim
RECURSIVE TrimStart(_)
TrimStart(s) ==
    IF s # << >> /\ IsWhitespace(Head(s)) THEN TrimStart(Tail(s)) ELSE s

RECURSIVE TrimEnd(_)
TrimEnd(s) ==
    IF s # << >> /\ IsWhitespace(s[Len(s)]) THEN TrimEnd(SubSeq(s, 1, Len(s) - 1)) ELSE s

Trim(s) == TrimEnd(TrimStart(s))

\* Array.prototype.join("")
RECURSIVE Join(_)
Join(items) ==
    IF items = << >> THEN << >> ELSE Head(items) \o Join(Tail(items))

----------------------------------------------------------------------------
(* Ingredient-list validation                                              *)

\* String.prototype.split(sep) with a one-character separator
RECURSIVE SplitOn(_, _, _)
SplitOn(s, sep, cur) ==
    IF s = << >> THEN <<cur>>
    ELSE IF Head(s) = sep THEN <<cur>> \o SplitOn(Tail(s), sep, << >>)
    ELSE SplitOn(Tail(s), sep, Append(cur, Head(s)))

\* Array.prototype.map(item => item.trim())
MapTrim(items) == [k \in 1..Len(items) |-> Trim(items[k])]

AsciiLower == <<"a", "b", "c", "d", "e", "f", "g", "h", "i", "j", "k", "l", "m",
                "n", "o", "p", "q", "r", "s", "t", "u", "v", "w", "x", "y", "z">>
AsciiUpper == <<"A", "B", "C", "D", "E", "F", "G", "H", "I", "J", "K", "L", "M",
                "N", "O", "P", "Q", "R", "S", "T", "U", "V", "W", "X", "Y", "Z">>
AccentLower == <<"á", "é", "í", "ó", "ú", "ñ", "ü">>
AccentUpper == <<"Á", "É", "Í", "Ó", "Ú", "Ñ", "Ü">>

\* the i flag: a character matches when its case counterpart is in the class
CaseFold(c) ==
    IF \E k \in 1..Len(AsciiUpper) : AsciiUpper[k] = c
    THEN AsciiLower[CHOOSE k \in 1..Len(AsciiUpper) : AsciiUpper[k] = c]
    ELSE IF \E k \in 1..Len(AccentUpper) : AccentUpper[k] = c
    THEN AccentLower[CHOOSE k \in 1..Len(AccentUpper) : AccentUpper[k] = c]
    ELSE c

\* the character class [a-záéíóúñü\s] under the i flag
InIngredientClass(c) ==
    \/ \E k \in 1..Len(AsciiLower) : AsciiLower[k] = CaseFold(c)
    \/ \E k \in 1..Len(AccentLower) : AccentLower[k] = CaseFold(c)
    \/ IsWhitespace(c)

\* /^[a-záéíóúñü\s]+$/i.test(item)
TestLettersAndSpaces(item) ==
    /\ Len(item) >= 1
    /\ \A k \in 1..Len(item) : InIngredientClass(item[k])

\* the filter with an off-by-one length test
IsPlausibleFrom2(item) == TestLettersAndSpaces(item) /\ Len(item) >= 2

\* (item) => /^[a-záéíóúñü\s]+$/i.test(item) && item.length > 2
IsPlausible(item) == TestLettersAndSpaces(item) /\ Len(item) > 2

isValidIngredientInput(input) ==
    LET items == SelectSeq(MapTrim(SplitOn(input, ",", << >>)), LAMBDA item : Len(item) > 0)
        plausible == SelectSeq(items, IsPlausible)
    IN  Len(plausible) > 0

IngrAlphabet == {"a", "É", "ç", "1", "!", ",", " "}

InitValid ==
    /\ vIn \in Strs(IngrAlphabet, MaxIngrLen)
    /\ vOut = "none"

CallIsValid ==
    /\ vOut = "none"
    /\ vOut' = IF isValidIngredientInput(vIn) THEN "true" ELSE "false"
    /\ UNCHANGED vIn

----------------------------------------------------------------------------
(* Output post-processor of the instructions field                         *)

BOpen == <<"<", "b", ">">>
BClose == <<"<", "/", "b", ">">>
Br == <<"<", "b", "r", "/", ">">>

IsDigit(c) == c \in {"0", "1", "2", "3", "4", "5", "6", "7", "8", "9"}

\* length of the run of digits of s that starts at 0-based position q
RECURSIVE DigitRun(_, _)
DigitRun(s, q) ==
    IF q < Len(s) /\ IsDigit(s[q + 1]) THEN 1 + DigitRun(s, q + 1) ELSE 0

\* /(\d+\.) / matched at exactly position q: the end index of the match, or -1.
\* \d+ is greedy; a shorter run cannot match since it is followed by a digit.
StepMatchEnd(s, q) ==
    LET d == DigitRun(s, q)
    IN  IF d >= 1 /\ q + d + 2 <= Len(s) /\ s[q + d + 1] = "." /\ s[q + d + 2] = " "
        THEN q + d + 2
        ELSE -1

\* a capture group that takes in the separating space: /(\d+\. )/
StepCaptureWithSpace(s, q, e) == Substring(s, q, e)

\* the capture group (\d+\.) of a match from q to e: the match without its space
StepCapture(s, q, e) == Substring(s, q, e - 1)

\* String.prototype.split with a separator that has one capture group:
\* p is the end of the previous match and q the position tried next.
RECURSIVE SplitLoop(_, _, _, _)
SplitLoop(s, p, q, acc) ==
    IF q >= Len(s) THEN Append(acc, Substring(s, p, Len(s)))
    ELSE LET e == StepMatchEnd(s, q)
         IN  IF e = -1 \/ e = p
             THEN SplitLoop(s, p, q + 1, acc)
             ELSE SplitLoop(s, e, e,
                            acc \o <<Substring(s, p, q), StepCapture(s, q, e)>>)

SplitSteps(s) == SplitLoop(s, 0, 0, << >>)

\* .map((item, index) => index % 2 === 1 ? `<b>${item}</b>` : item)
WrapOddEven(items) ==
    [k \in 1..Len(items) |->
        IF (k - 1) % 2 = 0 THEN BOpen \o items[k] \o BClose ELSE items[k]]

WrapOdd(items) ==
    [k \in 1..Len(items) |->
        IF (k - 1) % 2 = 1 THEN BOpen \o items[k] \o BClose ELSE items[k]]

\* the first transform without the appended line break
BoldStepsNoBr(s) == Join(WrapOdd(SplitSteps(s)))

\* first .transform of the instructions schema
BoldSteps(s) == Join(WrapOdd(SplitSteps(s))) \o Br

\* val.replace(/\n/g, "<br/>")
RECURSIVE ReplaceNewlines(_)
ReplaceNewlines(s) ==
    IF s = << >> THEN << >>
    ELSE (IF Head(s) = "\n" THEN Br ELSE <<Head(s)>>) \o ReplaceNewlines(Tail(s))

\* the two chained transforms
Transform(s) == ReplaceNewlines(BoldSteps(s))

InstrAlphabet == {"1", ".", " ", "\n", "M"}

InitInstr ==
    /\ raw \in Strs(InstrAlphabet, MaxInstrLen)
    /\ val = raw
    /\ prev = raw
    /\ applied = 0

ApplyTransform ==
    /\ applied < MaxApply
    /\ prev' = val
    /\ val' = Transform(val)
    /\ applied' = applied + 1
    /\ UNCHANGED raw

----------------------------------------------------------------------------
(* The generation flows                                                    *)
(*                                                                         *)
(* An exported function runs without interruption up to its await of the   *)
(* prompt call (the only suspension point); the flow body resumes when the *)
(* model backend answers.  A backend answer is a parsed output, no output  *)
(* (null) or a thrown failure.  Rendering the prompt template is part of   *)
(* the backend call; fields that only feed the template are not modelled.  *)

Invs == 1..NumInv

NoReq == [none |-> TRUE]
NoResp == [kind |-> "none"]
NoResult == [kind |-> "none"]
NoHttp == [status |-> 0]

\* an optional field of a request object
Missing == [some |-> FALSE, val |-> << >>]
Present(v) == [some |-> TRUE, val |-> v]

\* !x for a string field: undefined and "" are falsy
Falsy(field) == ~field.some \/ field.val = << >>

Value(v) == [kind |-> "value", value |-> v]
Fault(m) == [kind |-> "fault", message |-> m]

\* what a flow wrapper raises when its body returns null against an object schema
SchemaFault == Fault("Schema validation failed")
\* what the prompt call raises when the backend fails
BackendFault == Fault("Model backend failed")

Respond(i, r) == resp' = [resp EXCEPT ![i] = r]

Finish(i, res) ==
    /\ pc' = [pc EXCEPT ![i] = "done"]
    /\ result' = [result EXCEPT ![i] = res]

\* await prompt(input): one call to the model backend, then suspension
CallPrompt(i) ==
    /\ calls' = [calls EXCEPT ![i] = @ + 1]
    /\ pc' = [pc EXCEPT ![i] = "awaiting"]
    /\ UNCHANGED <<resp, result>>

Begin(i, f, input) ==
    /\ pc[i] = "idle"
    /\ flow' = [flow EXCEPT ![i] = f]
    /\ req' = [req EXCEPT ![i] = input]

\* ---- generate-from-ingredients ----

RawInstructions == <<"1", ".", " ", "M", "\n">>

RecipeOutputs ==
    {[recipes |-> << >>],
     [recipes |-> <<[name |-> <<"M">>, ingredientsRequired |-> <<<<"a">>>>,
                     instructions |-> RawInstructions,
                     availableIngredientsUsed |-> <<<<"a">>>>,
                     dificulty |-> "easy", estimatedTime |-> 10]>>]}

\* the output schema of generateRecipesPrompt, applied to a backend output
ParseRecipes(out) ==
    [recipes |-> [k \in 1..Len(out.recipes) |->
        [out.recipes[k] EXCEPT !.instructions = Transform(@)]]]

IngredientsMessage ==
    "Por favor, ingresa sólo ingredientes de comida separados por comas. Ejemplo: tomate, arroz, pollo"

IngredientsRejected(input) == ~isValidIngredientInput(input.ingredients)

generateRecipes(i, input) ==
    /\ Begin(i, "ingredients", input)
    /\ IF IngredientsRejected(input)
       THEN Finish(i, Fault(IngredientsMessage)) /\ UNCHANGED <<calls, resp>>
       ELSE CallPrompt(i)

\* a flow body that calls the prompt once more after a backend failure
generateRecipesFlowRetry(i, r) ==
    /\ pc[i] = "awaiting" /\ flow[i] = "ingredients"
    /\ Respond(i, r)
    /\ IF r.kind = "throw" /\ calls[i] < 2
       THEN calls' = [calls EXCEPT ![i] = @ + 1] /\ UNCHANGED <<pc, result>>
       ELSE /\ Finish(i, IF r.kind = "throw" THEN BackendFault
                         ELSE IF r.kind = "null" THEN SchemaFault
                         ELSE Value(ParseRecipes(r.output)))
            /\ UNCHANGED calls
    /\ UNCHANGED <<flow, req>>

generateRecipesFlow(i, r) ==
    /\ pc[i] = "awaiting" /\ flow[i] = "ingredients"
    /\ Respond(i, r)
    /\ Finish(i, IF r.kind = "throw" THEN BackendFault
                 ELSE IF r.kind = "null" THEN SchemaFault
                 ELSE Value(ParseRecipes(r.output)))
    /\ UNCHANGED <<flow, req, calls>>

\* ---- generate-for-event ----

EventOutputs ==
    {[recipes |-> << >>],
     [recipes |-> <<[name |-> <<"M">>, description |-> <<"M">>,
                     ingredientsRequired |-> <<<<"a">>>>,
                     instructions |-> RawInstructions]>>]}

EventTypeMessage == "Por favor, especifica el tipo de evento."
GuestsMessage == "El número de invitados debe ser mayor que cero."

\* the eventType test without the trim
EventTypeRejectedNoTrim(input) == Falsy(input.eventType)

\* !input.eventType || input.eventType.trim() === ""
EventTypeRejected(input) ==
    Falsy(input.eventType) \/ Trim(input.eventType.val) = << >>

generateEventRecipes(i, input) ==
    /\ Begin(i, "event", input)
    /\ IF EventTypeRejected(input)
       THEN Finish(i, Fault(EventTypeMessage)) /\ UNCHANGED <<calls, resp>>
       ELSE IF input.numberOfGuests <= 0
       THEN Finish(i, Fault(GuestsMessage)) /\ UNCHANGED <<calls, resp>>
       ELSE CallPrompt(i)

generateEventRecipesFlow(i, r) ==
    /\ pc[i] = "awaiting" /\ flow[i] = "event"
    /\ Respond(i, r)
    /\ Finish(i, IF r.kind = "throw" THEN BackendFault
                 ELSE IF r.kind = "null" THEN SchemaFault
                 ELSE Value(r.output))
    /\ UNCHANGED <<flow, req, calls>>

\* ---- get-named-recipe ----

ShortNameText ==
    <<"E", "r", "r", "o", "r", ":", " ", "R", "e", "c", "i", "p", "e", " ",
      "n", "a", "m", "e", " ", "m", "u", "s", "t", " ", "b", "e", " ", "a",
      "t", " ", "l", "e", "a", "s", "t", " ", "3", " ", "c", "h", "a", "r",
      "a", "c", "t", "e", "r", "s", " ", "l", "o", "n", "g", ".">>
NoOutputPrefix ==
    <<"E", "r", "r", "o", "r", ":", " ", "N", "o", " ", "v", "a", "l", "i",
      "d", " ", "o", "u", "t", "p", "u", "t", " ", "f", "r", "o", "m", " ",
      "L", "L", "M", " ", "f", "o", "r", " ", "'">>
CouldNotPrefix ==
    <<"E", "r", "r", "o", "r", ":", " ", "C", "o", "u", "l", "d", " ", "n",
      "o", "t", " ", "g", "e", "n", "e", "r", "a", "t", "e", " ", "r", "e",
      "c", "i", "p", "e", " ", "f", "o", "r", " ", "'">>
CouldNotSuffix ==
    <<"'", " ", "d", "u", "e", " ", "t", "o", " ", "a", "n", " ", "i", "n",
      "t", "e", "r", "n", "a", "l", " ", "e", "r", "r", "o", "r", ".">>
NotFoundText ==
    <<"E", "r", "r", "o", "r", ":", " ", "R", "e", "c", "i", "p", "e", " ",
      "'", "a", "a", "a", "'", " ", "n", "o", "t", " ", "f", "o", "u", "n",
      "d">>

ErrorRecipe(name) ==
    [name |-> name, ingredientsRequired |-> << >>, instructions |-> << >>,
     availableIngredientsUsed |-> << >>, dificulty |-> << >>, estimatedTime |-> << >>]

SpecificOutputs ==
    {[name |-> <<"a", "a", "a">>, ingredientsRequired |-> <<<<"a">>>>,
      instructions |-> RawInstructions, availableIngredientsUsed |-> << >>,
      dificulty |-> <<"e", "a", "s", "y">>, estimatedTime |-> <<"3", "0">>],
     ErrorRecipe(NotFoundText)}

\* the length test on the untrimmed name
NameTooShortNoTrim(input) ==
    Falsy(input.recipeName) \/ Len(input.recipeName.val) < 3

\* !input.recipeName || input.recipeName.trim().length < 3
NameTooShort(input) ==
    Falsy(input.recipeName) \/ Len(Trim(input.recipeName.val)) < 3

getSpecificRecipe(i, input) ==
    /\ Begin(i, "named", input)
    /\ IF NameTooShort(input)
       THEN Finish(i, Value(ErrorRecipe(ShortNameText))) /\ UNCHANGED <<calls, resp>>
       ELSE CallPrompt(i)

\* the catch block that rethrows instead of shaping a sentinel
OnPromptFailureRethrow(input) == BackendFault

\* catch (error) { ... return {name: `Error: Could not generate ...`, ...} }
OnPromptFailure(input) ==
    Value(ErrorRecipe(CouldNotPrefix \o input.recipeName.val \o CouldNotSuffix))

\* a flow body that shares one backend slot with the other invocations: an
\* answer that arrives while another invocation is suspended counts as a failure
getSpecificRecipeFlowSharedSlot(i, r) ==
    /\ pc[i] = "awaiting" /\ flow[i] = "named"
    /\ Respond(i, r)
    /\ Finish(i, IF r.kind = "throw" \/ \E j \in Invs \ {i} : pc[j] = "awaiting"
                 THEN OnPromptFailure(req[i])
                 ELSE IF r.kind = "output" THEN Value(r.output)
                 ELSE Value(ErrorRecipe(NoOutputPrefix \o req[i].recipeName.val \o <<"'", ".">>)))
    /\ UNCHANGED <<flow, req, calls>>

getSpecificRecipeFlow(i, r) ==
    /\ pc[i] = "awaiting" /\ flow[i] = "named"
    /\ Respond(i, r)
    /\ Finish(i, IF r.kind = "throw" THEN OnPromptFailure(req[i])
                 ELSE IF r.kind = "output" THEN Value(r.output)
                 ELSE Value(ErrorRecipe(NoOutputPrefix \o req[i].recipeName.val \o <<"'", ".">>)))
    /\ UNCHANGED <<flow, req, calls>>

\* ---- filter-by-restriction ----

InputTitles == {<<"r", "1">>, <<"r", "2">>}
OutputTitles == {<<"r", "1">>, <<"r", "3">>}

FilterOutputs == {[filteredRecipes |-> l] : l \in Strs(OutputTitles, 1)}

filterRecipes(i, input) ==
    /\ Begin(i, "filter", input)
    /\ CallPrompt(i)

\* a flow body that swallows a backend failure and returns an empty list
filterRecipesFlowCatching(i, r) ==
    /\ pc[i] = "awaiting" /\ flow[i] = "filter"
    /\ Respond(i, r)
    /\ Finish(i, IF r.kind = "throw" THEN Value([filteredRecipes |-> << >>])
                 ELSE IF r.kind = "null" THEN SchemaFault
                 ELSE Value(r.output))
    /\ UNCHANGED <<flow, req, calls>>

filterRecipesFlow(i, r) ==
    /\ pc[i] = "awaiting" /\ flow[i] = "filter"
    /\ Respond(i, r)
    /\ Finish(i, IF r.kind = "throw" THEN BackendFault
                 ELSE IF r.kind = "null" THEN SchemaFault
                 ELSE Value(r.output))
    /\ UNCHANGED <<flow, req, calls>>

\* ---- generate-image-url ----

Cerdo == <<"C", "e", "r", "d", "o">>
PolloAlCurry == <<"P", "o", "l", "l", "o", " ", "a", "l", " ", "C", "u", "r", "r", "y">>

ImageBase ==
    <<"h", "t", "t", "p", "s", ":", "/", "/", "i", "m", "a", "g", "e", ".",
      "p", "o", "l", "l", "i", "n", "a", "t", "i", "o", "n", "s", ".", "a",
      "i", "/", "p", "r", "o", "m", "p", "t", "/">>
CerdoUrl ==
    ImageBase \o
    <<"c", "a", "r", "n", "e", "%", "2", "0", "d", "e", "%", "2", "0", "c",
      "e", "r", "d", "o", "%", "2", "0", "f", "o", "t", "o", "g", "r", "a",
      "f", "%", "C", "3", "%", "A", "D", "a", "%", "2", "0", "d", "e", "%",
      "2", "0", "c", "o", "m", "i", "d", "a", "%", "2", "0", "r", "e", "a",
      "l", "i", "s", "t", "a", "%", "2", "C", "%", "2", "0", "p", "r", "i",
      "m", "e", "r", "%", "2", "0", "p", "l", "a", "n", "o">>
PolloUrl ==
    ImageBase \o
    <<"P", "o", "l", "l", "o", "%", "2", "0", "a", "l", "%", "2", "0", "C",
      "u", "r", "r", "y", "%", "2", "0", "f", "o", "t", "o", "g", "r", "a",
      "f", "%", "C", "3", "%", "A", "D", "a", "%", "2", "0", "d", "e", "%",
      "2", "0", "c", "o", "m", "i", "d", "a", "%", "2", "0", "r", "e", "a",
      "l", "i", "s", "t", "a", "%", "2", "C", "%", "2", "0", "p", "r", "i",
      "m", "e", "r", "%", "2", "0", "p", "l", "a", "n", "o">>
OtherUrl ==
    <<"h", "t", "t", "p", "s", ":", "/", "/", "e", "x", "a", "m", "p", "l",
      "e", ".", "c", "o", "m", "/", "c", "e", "r", "d", "o", ".", "p", "n",
      "g">>

ImageOutputs == {[imageUrl |-> u] : u \in {CerdoUrl, PolloUrl, OtherUrl}}

generateRecipeImages(i, input) ==
    /\ Begin(i, "image", input)
    /\ CallPrompt(i)

\* a flow body that turns a missing output into an empty url
generateRecipeImagesFlowNullValue(i, r) ==
    /\ pc[i] = "awaiting" /\ flow[i] = "image"
    /\ Respond(i, r)
    /\ Finish(i, IF r.kind = "throw" THEN BackendFault
                 ELSE IF r.kind = "null" THEN Value([imageUrl |-> << >>])
                 ELSE Value(r.output))
    /\ UNCHANGED <<flow, req, calls>>

generateRecipeImagesFlow(i, r) ==
    /\ pc[i] = "awaiting" /\ flow[i] = "image"
    /\ Respond(i, r)
    /\ Finish(i, IF r.kind = "throw" THEN BackendFault
                 ELSE IF r.kind = "null" THEN SchemaFault
                 ELSE Value(r.output))
    /\ UNCHANGED <<flow, req, calls>>

\* ---- the request boundary: the express handlers ----
\* The three routes are the only callers of their flows; a handler awaits the
\* flow and answers as soon as the flow has returned or thrown.

\* res.json(result) in the try block, res.status(400).json({error: error.message}) in the catch
Reply(res) ==
    IF res.kind = "value"
    THEN [status |-> 200, body |-> res.value]
    ELSE [status |-> 400, body |-> [error |-> res.message]]

Handle(i) ==
    http' = [http EXCEPT ![i] = IF pc'[i] = "done" THEN Reply(result'[i]) ELSE NoHttp]

postGenerateRecipes(i, body) == generateRecipes(i, body) /\ Handle(i)

postGenerateRecipesResume(i, r) == generateRecipesFlow(i, r) /\ Handle(i)

postFilterRecipes(i, body) == filterRecipes(i, body) /\ Handle(i)

postFilterRecipesResume(i, r) == filterRecipesFlow(i, r) /\ Handle(i)

postGenerateRecipeImages(i, body) == generateRecipeImages(i, body) /\ Handle(i)

postGenerateRecipeImagesResume(i, r) == generateRecipeImagesFlow(i, r) /\ Handle(i)

\* ---- requests and backend answers ----

IngredientRequests ==
    {[ingredients |-> s] : s \in Strs({"a", ","}, MaxReqIngrLen)}

EventRequests ==
    {[eventType |-> t, numberOfGuests |-> n] :
        t \in {Missing} \cup {Present(s) : s \in Strs({" ", "B"}, MaxEventLen)},
        n \in (-1)..MaxGuests}

NamedRequests ==
    {[recipeName |-> t] :
        t \in {Missing} \cup {Present(s) : s \in Strs({" ", "a"}, MaxNameLen)}}

FilterRequests == {[recipes |-> l] : l \in Strs(InputTitles, MaxRecipes)}

ImageRequests == {[recipeName |-> n] : n \in {Cerdo, PolloAlCurry}}

Answers(outputs) ==
    {[kind |-> "output", output |-> o] : o \in outputs}
        \cup {[kind |-> "null"], [kind |-> "throw"]}

InitFlows ==
    /\ pc = [i \in Invs |-> "idle"]
    /\ flow = [i \in Invs |-> "none"]
    /\ req = [i \in Invs |-> NoReq]
    /\ calls = [i \in Invs |-> 0]
    /\ resp = [i \in Invs |-> NoResp]
    /\ result = [i \in Invs |-> NoResult]
    /\ http = [i \in Invs |-> NoHttp]

\* the post-processor alone: a raw text is drawn, then transformed (and
\* transformed again when a caller applies it to its own output)
InitIdleFlows ==
    /\ pc = << >>
    /\ flow = << >>
    /\ req = << >>
    /\ calls = << >>
    /\ resp = << >>
    /\ result = << >>
    /\ http = << >>

InitIdleValid ==
    /\ vIn = << >>
    /\ vOut = "none"

InitIdleInstr ==
    /\ raw = << >>
    /\ val = << >>
    /\ prev = << >>
    /\ applied = 0

InitInstrSpec == InitInstr /\ InitIdleFlows /\ InitIdleValid

NextInstr == ApplyTransform /\ UNCHANGED <<flowVars, validVars>>

SpecInstr == InitInstrSpec /\ [][NextInstr]_vars

\* the ingredient validator alone
InitValidSpec == InitValid /\ InitIdleFlows /\ InitIdleInstr

NextValid == CallIsValid /\ UNCHANGED <<flowVars, instrVars>>

SpecValid == InitValidSpec /\ [][NextValid]_vars

\* the flows: every invocation is called once with some request and, when it
\* reached the backend, resumed with some answer
NextFlows ==
    \/ \E i \in Invs, input \in IngredientRequests :
          postGenerateRecipes(i, input) /\ UNCHANGED <<validVars, instrVars>>
    \/ \E i \in Invs, r \in Answers(RecipeOutputs) :
          postGenerateRecipesResume(i, r) /\ UNCHANGED <<validVars, instrVars>>
    \/ \E i \in Invs, input \in EventRequests :
          generateEventRecipes(i, input) /\ UNCHANGED <<http, validVars, instrVars>>
    \/ \E i \in Invs, r \in Answers(EventOutputs) :
          generateEventRecipesFlow(i, r) /\ UNCHANGED <<http, validVars, instrVars>>
    \/ \E i \in Invs, input \in NamedRequests :
          getSpecificRecipe(i, input) /\ UNCHANGED <<http, validVars, instrVars>>
    \/ \E i \in Invs, r \in Answers(SpecificOutputs) :
          getSpecificRecipeFlow(i, r) /\ UNCHANGED <<http, validVars, instrVars>>
    \/ \E i \in Invs, input \in FilterRequests :
          postFilterRecipes(i, input) /\ UNCHANGED <<validVars, instrVars>>
    \/ \E i \in Invs, r \in Answers(FilterOutputs) :
          postFilterRecipesResume(i, r) /\ UNCHANGED <<validVars, instrVars>>
    \/ \E i \in Invs, input \in ImageRequests :
          postGenerateRecipeImages(i, input) /\ UNCHANGED <<validVars, instrVars>>
    \/ \E i \in Invs, r \in Answers(ImageOutputs) :
          postGenerateRecipeImagesResume(i, r) /\ UNCHANGED <<validVars, instrVars>>

InitFlowsSpec == InitFlows /\ InitIdleValid /\ InitIdleInstr

Spec == InitFlowsSpec /\ [][NextFlows]_vars

----------------------------------------------------------------------------
(* Properties of the post-processor *)

StartsWith(s, pat) == Len(s) >= Len(pat) /\ SubSeq(s, 1, Len(pat)) = pat

EndsWith(s, pat) == Len(s) >= Len(pat) /\ SubSeq(s, Len(s) - Len(pat) + 1, Len(s)) = pat

Occurrences(s, pat) ==
    Cardinality({i \in 1..(Len(s) - Len(pat) + 1) : SubSeq(s, i, i + Len(pat) - 1) = pat})

Chars(s) == {s[i] : i \in 1..Len(s)}

\* a numbered step "<digits>. " of s begins at position i and its digits end at j
IsStepMarker(s, i, j) ==
    /\ 1 <= i /\ i <= j /\ j + 2 <= Len(s)
    /\ \A k \in i..j : IsDigit(s[k])
    /\ i = 1 \/ ~IsDigit(s[i - 1])
    /\ s[j + 1] = "."
    /\ s[j + 2] = " "

MarkerStarts(s) == {i \in 1..Len(s) : \E j \in i..Len(s) : IsStepMarker(s, i, j)}

MarkerEnd(s, i) == CHOOSE j \in i..Len(s) : IsStepMarker(s, i, j)

NumSteps(s) == Cardinality(MarkerStarts(s))

\* the text the description of the post-processor asks for, written out
\* position by position: a step marker becomes "<b><digits>.</b>", a newline
\* becomes "<br/>", any other character stays, and one "<br/>" closes the text
RECURSIVE Rendered(_, _)
Rendered(s, i) ==
    IF i > Len(s) THEN Br
    ELSE IF i \in MarkerStarts(s)
         THEN BOpen \o SubSeq(s, i, MarkerEnd(s, i) + 1) \o BClose
                  \o Rendered(s, MarkerEnd(s, i) + 3)
         ELSE (IF s[i] = "\n" THEN Br ELSE <<s[i]>>) \o Rendered(s, i + 1)

C6_StepsAndTrailingBreak ==
    applied = 1 => /\ Occurrences(val, BOpen) = NumSteps(raw)
                   /\ Occurrences(val, BClose) = NumSteps(raw)
                   /\ EndsWith(val, Br)
                   /\ EndsWith(val, Br \o Br) <=> EndsWith(raw, <<"\n">>)

C6_Witness ==
    /\ applied = 1
    /\ NumSteps(raw) = 2
    /\ ~EndsWith(raw, <<"\n">>)

\* C6 as stated: k bold-wrapped markers and exactly one trailing "<br/>",
\* never two consecutive ones.
C6_Original ==
    applied = 1 => /\ Occurrences(val, BOpen) = NumSteps(raw)
                   /\ EndsWith(val, Br)
                   /\ ~EndsWith(val, Br \o Br)

\* removing the inserted markup: the trailing "<br/>" is cut, the "<b>" and
\* "</b>" wrappers are removed and the remaining "<br/>" become newlines
RECURSIVE StripMarkup(_)
StripMarkup(s) ==
    IF s = << >> THEN << >>
    ELSE IF StartsWith(s, BOpen) THEN StripMarkup(SubSeq(s, Len(BOpen) + 1, Len(s)))
    ELSE IF StartsWith(s, BClose) THEN StripMarkup(SubSeq(s, Len(BClose) + 1, Len(s)))
    ELSE IF StartsWith(s, Br) THEN <<"\n">> \o StripMarkup(SubSeq(s, Len(Br) + 1, Len(s)))
    ELSE <<Head(s)>> \o StripMarkup(Tail(s))

Unmarked(s) ==
    StripMarkup(IF EndsWith(s, Br) THEN SubSeq(s, 1, Len(s) - Len(Br)) ELSE s)

\* C7: removing the inserted markup from the output of one application gives
\* back exactly the raw text.
C7_NoInformationDropped ==
    applied = 1 => Unmarked(val) = raw

\* C8 (as amended): a second application never gives the result of the
\* first: it appends one more "<br/>" to it and wraps nothing else.
C8_SecondApplicationAppendsBreak ==
    applied >= 2 => /\ val # prev
                    /\ val = prev \o Br
                    /\ Occurrences(val, BOpen) = Occurrences(prev, BOpen)

C8_Witness ==
    /\ applied = 2
    /\ NumSteps(raw) >= 1
    /\ val # prev

\* C8 as stated: the second application differs from the first and wraps the
\* step markers again.
C8_Original ==
    applied = 2 => /\ val # prev
                   /\ NumSteps(raw) >= 1 => Occurrences(val, BOpen) > Occurrences(prev, BOpen)

----------------------------------------------------------------------------
(* Properties of the ingredient validator *)

\* positions i..j of s hold one piece between commas (or the ends of s)
IsPiece(s, i, j) ==
    /\ 1 <= i /\ i <= j /\ j <= Len(s)
    /\ i = 1 \/ s[i - 1] = ","
    /\ j = Len(s) \/ s[j + 1] = ","
    /\ \A k \in i..j : s[k] # ","

\* positions a..b of s hold a token: a piece without the blanks around it
IsToken(s, a, b) ==
    /\ 1 <= a /\ a <= b /\ b <= Len(s)
    /\ ~IsWhitespace(s[a]) /\ ~IsWhitespace(s[b])
    /\ \E i \in 1..a, j \in b..Len(s) :
          /\ IsPiece(s, i, j)
          /\ \A k \in (i..(a - 1)) \cup ((b + 1)..j) : IsWhitespace(s[k])

\* what a reader calls a letter, accented or not, of any language
IsLetter(c) ==
    \/ \E k \in 1..Len(AsciiLower) : c \in {AsciiLower[k], AsciiUpper[k]}
    \/ c \in {"á", "é", "í", "ó", "ú", "ñ", "ü", "Á", "É", "Í", "Ó", "Ú", "Ñ", "Ü"}
    \/ c \in {"ç", "à", "è", "ö", "â", "Ç", "À", "È", "Ö", "Â"}

\* the letters the validator accepts: a-z and the accented letters of Spanish
IsSpanishLetter(c) ==
    \/ \E k \in 1..Len(AsciiLower) : c \in {AsciiLower[k], AsciiUpper[k]}
    \/ c \in {"á", "é", "í", "ó", "ú", "ñ", "ü", "Á", "É", "Í", "Ó", "Ú", "Ñ", "Ü"}

----------------------------------------------------------------------------
(* Properties of the flows *)

Blank(s) == \A k \in 1..Len(s) : IsWhitespace(s[k])

\* number of characters from the first to the last non-blank character of s
TrimmedLen(s) ==
    IF Blank(s) THEN 0
    ELSE LET solid == {k \in 1..Len(s) : ~IsWhitespace(s[k])}
             first == CHOOSE k \in solid : \A m \in solid : k <= m
             last == CHOOSE k \in solid : \A m \in solid : m <= k
         IN  last - first + 1

\* the request of invocation i fails the validation of its flow
FailsValidation(i) ==
    \/ /\ flow[i] = "event"
       /\ \/ ~req[i].eventType.some
          \/ Blank(req[i].eventType.val)
          \/ req[i].numberOfGuests <= 0
    \/ /\ flow[i] = "ingredients"
       /\ ~isValidIngredientInput(req[i].ingredients)

IsValidationError(res) ==
    res.kind = "fault" /\ res.message \in {EventTypeMessage, GuestsMessage, IngredientsMessage}

\* C1: in the event flow and the ingredients flow, a request that fails
\* validation ends in a validation error raised to the caller with no call
\* to the model backend; the backend is called only for requests that pass.
C1_NoBackendCallOnInvalidInput ==
    \A i \in Invs :
        flow[i] \in {"event", "ingredients"} =>
            /\ FailsValidation(i) =>
                  calls[i] = 0 /\ pc[i] = "done" /\ IsValidationError(result[i])
            /\ calls[i] > 0 => ~FailsValidation(i)
            /\ IsValidationError(result[i]) => FailsValidation(i)

C1_Witness ==
    \E i \in Invs, j \in Invs :
        /\ flow[i] = "event" /\ req[i].eventType.some /\ req[i].eventType.val # << >>
        /\ Blank(req[i].eventType.val) /\ pc[i] = "done"
        /\ flow[j] = "ingredients" /\ FailsValidation(j) /\ pc[j] = "done"

ErrorPrefix == <<"E", "r", "r", "o", "r", ":">>

IsErrorSentinel(v) ==
    /\ StartsWith(v.name, ErrorPrefix)
    /\ v.ingredientsRequired = << >>
    /\ v.instructions = << >>
    /\ v.availableIngredientsUsed = << >>
    /\ v.dificulty = << >>
    /\ v.estimatedTime = << >>

\* C2: a named-recipe request whose name is missing, empty or shorter than 3
\* characters after trimming returns an error sentinel and calls no backend.
C2_ShortNameReturnsSentinel ==
    \A i \in Invs :
        (flow[i] = "named" /\ (~req[i].recipeName.some \/ TrimmedLen(req[i].recipeName.val) < 3)) =>
            /\ pc[i] = "done"
            /\ calls[i] = 0
            /\ result[i].kind = "value"
            /\ IsErrorSentinel(result[i].value)

\* a name of three characters that is too short once trimmed
C2_Witness ==
    \E i \in Invs :
        /\ flow[i] = "named" /\ req[i].recipeName.some
        /\ Len(req[i].recipeName.val) = 3 /\ TrimmedLen(req[i].recipeName.val) < 3
        /\ pc[i] = "done"

\* C3: the named-recipe flow never raises a fault: on a backend failure or on
\* no output it returns an error sentinel, and a backend output is returned
\* as it is.
C3_NamedFlowNeverThrows ==
    \A i \in Invs :
        (flow[i] = "named" /\ pc[i] = "done") =>
            /\ result[i].kind = "value"
            /\ resp[i].kind \in {"throw", "null"} => IsErrorSentinel(result[i].value)
            /\ resp[i].kind = "output" => result[i].value = resp[i].output

C3_Witness ==
    \E i \in Invs, j \in Invs :
        /\ flow[i] = "named" /\ pc[i] = "done" /\ resp[i].kind = "throw"
        /\ flow[j] = "named" /\ pc[j] = "done" /\ resp[j].kind = "null"

\* encodeURIComponent on the characters of the image phrases
PercentEncodeChar(c) ==
    CASE c = " " -> <<"%", "2", "0">>
      [] c = "," -> <<"%", "2", "C">>
      [] c = "í" -> <<"%", "C", "3", "%", "A", "D">>
      [] OTHER -> <<c>>

RECURSIVE PercentEncode(_)
PercentEncode(s) ==
    IF s = << >> THEN << >> ELSE PercentEncodeChar(Head(s)) \o PercentEncode(Tail(s))

\* the transformation table of the image phrase
ImageSubject(name) ==
    IF name = Cerdo
    THEN <<"c", "a", "r", "n", "e", " ", "d", "e", " ", "c", "e", "r", "d", "o">>
    ELSE name

ImageSuffix ==
    <<" ", "f", "o", "t", "o", "g", "r", "a", "f", "í", "a", " ", "d", "e", " ",
      "c", "o", "m", "i", "d", "a", " ", "r", "e", "a", "l", "i", "s", "t", "a",
      ",", " ", "p", "r", "i", "m", "e", "r", " ", "p", "l", "a", "n", "o">>

ExpectedImageUrl(name) == ImageBase \o PercentEncode(ImageSubject(name) \o ImageSuffix)

\* C9: the imageUrl of the image flow is the fixed base followed by the
\* percent-encoded transformed and suffixed name, on every invocation.
C9_ImageUrlIsBuiltFromName ==
    \A i \in Invs :
        (flow[i] = "image" /\ pc[i] = "done" /\ result[i].kind = "value") =>
            result[i].value.imageUrl = ExpectedImageUrl(req[i].recipeName)

\* C10: every filtered recipe returned by the filter flow is one of the
\* recipes of its request.
C10_FilteredIsSubsetOfInput ==
    \A i \in Invs :
        (flow[i] = "filter" /\ pc[i] = "done" /\ result[i].kind = "value") =>
            \A k \in 1..Len(result[i].value.filteredRecipes) :
                \E m \in 1..Len(req[i].recipes) :
                    req[i].recipes[m] = result[i].value.filteredRecipes[k]

\* C11: an invocation of any flow issues at most one call to the model
\* backend; once the backend has answered, a failure included, the invocation
\* is over and still has issued that single call.
C11_AtMostOneBackendCall ==
    \A i \in Invs :
        /\ calls[i] <= 1
        /\ calls[i] = 1 <=> (pc[i] = "awaiting" \/ resp[i].kind # "none")
        /\ resp[i].kind # "none" => pc[i] = "done"

C11_Witness ==
    \E i \in Invs, j \in Invs :
        /\ flow[i] = "named" /\ resp[i].kind = "throw" /\ pc[i] = "done" /\ calls[i] = 1
        /\ flow[j] = "ingredients" /\ resp[j].kind = "throw" /\ pc[j] = "done" /\ calls[j] = 1

HasRoute(f) == f \in {"ingredients", "filter", "image"}

\* C12: in the ingredients, event, filter and image flows a backend failure
\* (a thrown failure or no output) reaches the caller as a thrown fault, never
\* as a returned value, and the route of the flow answers it with a client
\* error that carries the message of the fault.
C12_BackendFailurePropagates ==
    \A i \in Invs :
        (flow[i] \in {"ingredients", "event", "filter", "image"}
            /\ pc[i] = "done" /\ resp[i].kind \in {"throw", "null"}) =>
                /\ result[i].kind = "fault"
                /\ HasRoute(flow[i]) =>
                      /\ http[i].status = 400
                      /\ http[i].body = [error |-> result[i].message]

C12_Witness ==
    \E i \in Invs, j \in Invs :
        /\ flow[i] = "filter" /\ pc[i] = "done" /\ resp[i].kind = "throw"
        /\ http[i].status = 400
        /\ flow[j] = "event" /\ pc[j] = "done" /\ resp[j].kind = "throw"

\* the result has the shape its flow declares
HasFlowShape(i) ==
    /\ result[i].kind = "value"
    /\ flow[i] = "filter" => DOMAIN result[i].value = {"filteredRecipes"}
    /\ flow[i] = "image" => DOMAIN result[i].value = {"imageUrl"}

\* C13 (as amended): the named-recipe flow never raises a fault; a validation
\* error is raised only by the ingredients and event flows and only for a
\* request that fails validation; any other fault comes from a backend that
\* failed or gave no output; the filter and image flows return their result
\* shape exactly when the backend gave an output.
C13_FaultsOnlyFromValidationOrBackend ==
    \A i \in Invs :
        pc[i] = "done" =>
            /\ flow[i] = "named" => result[i].kind = "value"
            /\ result[i].kind = "fault" =>
                  \/ /\ IsValidationError(result[i])
                     /\ flow[i] \in {"ingredients", "event"}
                     /\ FailsValidation(i)
                     /\ calls[i] = 0
                  \/ /\ ~IsValidationError(result[i])
                     /\ flow[i] # "named"
                     /\ resp[i].kind \in {"throw", "null"}
            /\ flow[i] \in {"filter", "image"} =>
                  /\ result[i].kind = "value" <=> resp[i].kind = "output"
                  /\ result[i].kind = "value" => HasFlowShape(i)

C13_Witness ==
    \E i \in Invs, j \in Invs :
        /\ flow[i] = "image" /\ pc[i] = "done" /\ resp[i].kind = "null"
        /\ result[i].kind = "fault"
        /\ flow[j] = "filter" /\ pc[j] = "done" /\ resp[j].kind = "output"

\* C13 as stated: only the ingredients and event flows raise a fault, and
\* only a validation error for a request that fails validation; the filter
\* and image flows always return their result shape.
C13_Original ==
    \A i \in Invs :
        pc[i] = "done" =>
            /\ flow[i] \in {"named", "filter", "image"} => HasFlowShape(i)
            /\ result[i].kind = "fault" =>
                  IsValidationError(result[i]) /\ FailsValidation(i)

\* two invocations of the same flow with the same request agree on whether
\* the backend is reached, and with the same backend answer they end alike
SameInputsSameOutcome ==
    \A i \in Invs, j \in Invs :
        (pc[i] # "idle" /\ pc[j] # "idle" /\ flow[i] = flow[j] /\ req[i] = req[j]) =>
            /\ calls[i] = calls[j]
            /\ (pc[i] = "done" /\ pc[j] = "done" /\ resp[i] = resp[j]) =>
                  result[i] = result[j] /\ http[i] = http[j]

\* a step changes the state of one invocation and leaves the others alone
OneInvocationPerStep ==
    \E i \in Invs : \A j \in Invs \ {i} :
        /\ pc'[j] = pc[j] /\ flow'[j] = flow[j] /\ req'[j] = req[j]
        /\ calls'[j] = calls[j] /\ resp'[j] = resp[j]
        /\ result'[j] = result[j] /\ http'[j] = http[j]

====
